---- MODULE Spec2Model ----
(***************************************************************************)
(* A model of the VSLA SMS bot (fullBot.py): the poll loop, one worker     *)
(* thread per inbound message, the session reaper, and the three locks     *)
(* (sessions_lock, csv_lock, SEND_LOCK) that guard the session map, the    *)
(* report file and the modem's serial channel.                             *)
(*                                                                         *)
(* A text is a sequence of one-character strings; "sup2" stands for the    *)
(* character U+00B2, for which str.isdigit() is True and int() raises.     *)
(***************************************************************************)
EXTENDS Integers, Sequences, FiniteSets, TLC

----------------------------------------------------------------------------
(* Bounds of the model *)

MaxMsgs == 2
MaxInFlight == 2
MaxSeqMsgs == 11
MaxDeliveries == 2
MaxRelistMsgs == 1

----------------------------------------------------------------------------
(* Configuration and tables *)

SESSION_TIMEOUT == 40 * 60

Retries == 3

groupNames ==
  << "Mkama", "Chilulu", "Chimnyanga", "Tchesamu", "Emcizini", "Mkamaumoza",
     "Kabira", "Chambizi", "Kanjuchi", "Tiphunzire", "Kanyenda", "Chivunguti",
     "Ukwe", "Mvunguti", "Chimbiya", "Lisasadzi", "Kanjeza" >>

Languages == {"english", "chichewa", "tumbuka"}

followup_questions ==
  [ english |->
      << "Number of members present today",
         "Amount of shares collected today",
         "Amount of social fund collected today",
         "Amount borrowed today",
         "Amount repaid today",
         "Interest paid today",
         "Amount paid for penalties (latecomers and absentees)" >>,
    chichewa |->
      << "Anthu omwe anabwera lero",
         "Ndalama za ma sheya zotoleledwa lero",
         "Ndalama zadzidzidzi zatoleredwa lero",
         "Ndalama zomwe zabwerekedwa",
         "Ndalama zomwe zabwenzedwa",
         "Ndalama za chiongola dzanja yomwe yapelekedwa lero",
         "Ndalama za chilango zomwe zaperekedwa (ochedwa ndi ojomba)" >>,
    tumbuka |->
      << "Nambala ya wanthu agha wangwiza mwahuno ku gulu",
         "Ndalama ya masheya iyo yasonkheka yamwahuno",
         "Ndalama ya zizizi iyo yasonkheka yamwahuno",
         "Ndalama iyo yabwerekeka mwahuno",
         "Ndalama za ngongoli izo zawezgeka",
         "Ndalama ya interest iyo yasonkheka mwahuno",
         "Ndalama iyo yasonkheka lero mu vilango/kubuda" >> ]

LANGUAGE_MENU == "Choose your language: 1. English 2. Chichewa 3. Chitumbuka"

group_list_parts ==
  [ english |-> << "Choose your group number from the list below: 1..8",
                   "9..17" >>,
    chichewa |-> << "Sankhani nambala la gulu yanu: 1..8", "9..17" >>,
    tumbuka |-> << "Sankhani nambala la gulu yanu: 1..8", "9..17" >> ]

THANK_YOU == "Thank you! Your report has been received and saved."

----------------------------------------------------------------------------
(* Python string operations, as handle_message uses them *)

Whitespace == {" "}

DecimalChars == {"0", "1", "2", "3", "4", "5", "6", "7", "8", "9"}

\* str.isdigit() accepts every character with the Unicode property Digit,
\* which includes superscript digits that int() rejects.
DigitChars == DecimalChars \cup {"sup2"}

LowerChar(c) ==
  CASE c = "V" -> "v" [] c = "S" -> "s" [] c = "L" -> "l" [] c = "A" -> "a"
    [] OTHER -> c

Lower(s) == [i \in 1..Len(s) |-> LowerChar(s[i])]

RECURSIVE LStrip(_)
LStrip(s) == IF s # <<>> /\ Head(s) \in Whitespace THEN LStrip(Tail(s)) ELSE s

RECURSIVE RStrip(_)
RStrip(s) ==
  IF s # <<>> /\ s[Len(s)] \in Whitespace
    THEN RStrip(SubSeq(s, 1, Len(s) - 1))
    ELSE s

Strip(s) == RStrip(LStrip(s))

Contains(s, sub) ==
  \E i \in 0..(Len(s) - Len(sub)) : SubSeq(s, i + 1, i + Len(sub)) = sub

IsDigit(s) == s # <<>> /\ \A i \in 1..Len(s) : s[i] \in DigitChars

\* int(s) on an isdigit() string succeeds exactly when every character is a
\* decimal digit; otherwise it raises ValueError.
IntRaises(s) == \E i \in 1..Len(s) : s[i] \notin DecimalChars

DigitVal(c) ==
  CASE c = "0" -> 0 [] c = "1" -> 1 [] c = "2" -> 2 [] c = "3" -> 3
    [] c = "4" -> 4 [] c = "5" -> 5 [] c = "6" -> 6 [] c = "7" -> 7
    [] c = "8" -> 8 [] c = "9" -> 9

RECURSIVE IntOf(_)
IntOf(s) ==
  IF s = <<>>
    THEN 0
    ELSE 10 * IntOf(SubSeq(s, 1, Len(s) - 1)) + DigitVal(s[Len(s)])

VslaKeyword == <<"v", "s", "l", "a">>

\* list[i] with Python's negative indices; FALSE when it raises IndexError
PyIndexOk(seq, i) == -Len(seq) <= i /\ i < Len(seq)

PyIndex(seq, i) == IF i >= 0 THEN seq[i + 1] ELSE seq[Len(seq) + i + 1]

----------------------------------------------------------------------------
(* Inputs: the senders and the message bodies the environment draws from *)

SeqPhone == "265991112222"

Texts ==
  { <<" ", "V", "s", "L", "a">>,
    <<"1">>,
    <<"1", "8">>,
    <<"sup2">> }

----------------------------------------------------------------------------
(* State *)

VARIABLES
  sessions,       \* the dict sessions: phone -> session record
  sessions_lock,  \* holder of sessions_lock
  csv_lock,       \* holder of csv_lock
  SEND_LOCK,      \* holder of SEND_LOCK
  clock,          \* time.time()
  modem,          \* the modem's message store
  nmsgs,          \* messages received by the modem so far (the last index)
  nthreads,       \* worker threads started so far
  workers,        \* live process_message threads: id -> locals and position
  mpc,            \* position of main: polling, or inside read_sms
  rpc,            \* position of the cleanup_sessions thread
  rnow,           \* cleanup_sessions' local now
  csv,            \* rows of the report file, in the order written
  supplied        \* history: the inputs of the conversation so far that
                  \* are valid at their place, and the index of the last
                  \* of them
VARIABLE
  ix              \* index.py, the earlier version of the bot: its session
                  \* store, session objects, modem records, worker threads,
                  \* report file and clock

vars ==
  << sessions, sessions_lock, csv_lock, SEND_LOCK, clock, modem, nmsgs,
     nthreads, workers, mpc, rpc, rnow, csv, supplied, ix >>

Free == <<"free">>

MainThread == <<"main">>

WorkerThread(w) == <<"worker", w>>

EmptyMap == [k \in {} |-> 0]

Put(d, k, v) == [x \in DOMAIN d \cup {k} |-> IF x = k THEN v ELSE d[x]]

\* a delete that empties the map
DelEveryKey(d, k) == [x \in {} |-> d[x]]

Del(d, k) == [x \in DOMAIN d \ {k} |-> d[x]]

NoneVal == "None"

\* index.py once its main has opened the port and started the reaper
IxIdle ==
  [sessions |-> EmptyMap, heap |-> <<>>, modem |-> {}, nmsgs |-> 0,
   workers |-> EmptyMap, nthreads |-> 0, csv |-> <<>>, clock |-> 0]

\* The state once main has opened the port and started the reaper
FullBotFresh ==
  /\ sessions_lock = Free
  /\ csv_lock = Free
  /\ SEND_LOCK = Free
  /\ clock = 0
  /\ modem = {}
  /\ nmsgs = 0
  /\ nthreads = 0
  /\ workers = EmptyMap
  /\ mpc = "poll"
  /\ rpc = "sleep"
  /\ rnow = 0
  /\ csv = <<>>
  /\ supplied = [seq |-> <<>>, at |-> 0]

\* fullBot.py started, index.py not running
Fresh == FullBotFresh /\ ix = IxIdle

SeqInit == sessions = EmptyMap /\ Fresh

----------------------------------------------------------------------------
(* The environment: inbound SMS and the passing of time *)

Unread == {r \in modem : r.stat = "REC UNREAD"}

\* A message is in flight from its arrival until its worker thread has ended.
InFlight == Cardinality(Unread) + Cardinality(DOMAIN workers)

\* The text is a valid input at place n of a conversation: the trigger, a
\* language code, a group number, then seven all-digit answers.
ValidAt(n, t) ==
  CASE n = 1 -> \E i \in 1..(Len(t) - 3) :
                  /\ t[i] \in {"v", "V"} /\ t[i + 1] \in {"s", "S"}
                  /\ t[i + 2] \in {"l", "L"} /\ t[i + 3] \in {"a", "A"}
    [] n = 2 -> t \in {<<"1">>, <<"2">>, <<"3">>}
    [] n = 3 -> /\ t # <<>>
                /\ \A i \in 1..Len(t) : t[i] \in DecimalChars
                /\ IntOf(t) \in 1..17
    [] n \in 4..10 -> t # <<>> /\ \A i \in 1..Len(t) : t[i] \in DigitChars
    [] OTHER -> FALSE

Arrive(p, t, maxMsgs, maxInFlight, track) ==
  /\ nmsgs < maxMsgs
  /\ InFlight < maxInFlight
  /\ nmsgs' = nmsgs + 1
  /\ modem' = modem \cup
       {[index |-> nmsgs + 1, phone |-> p, content |-> t, stat |-> "REC UNREAD"]}
  /\ supplied' = IF track /\ ValidAt(Len(supplied.seq) + 1, t)
                   THEN [seq |-> Append(supplied.seq, t), at |-> nmsgs + 1]
                   ELSE supplied
  /\ UNCHANGED << sessions, sessions_lock, csv_lock, SEND_LOCK, clock,
                  nthreads, workers, mpc, rpc, rnow, csv, ix >>

\* Time passes in steps of the session timeout, or of a second more, up to
\* the horizon of the model.
TickSteps == {SESSION_TIMEOUT, SESSION_TIMEOUT + 1}

Horizon == SESSION_TIMEOUT + 1

Tick(d) ==
  /\ clock + d <= Horizon
  /\ clock' = clock + d
  /\ UNCHANGED << sessions, sessions_lock, csv_lock, SEND_LOCK, modem, nmsgs,
                  nthreads, workers, mpc, rpc, rnow, csv, supplied, ix >>

----------------------------------------------------------------------------
(* main: the poll loop *)

\* The records of a set, as the sequence ordered by modem index
RECURSIVE ByIndex(_)
ByIndex(rs) ==
  IF rs = {}
    THEN <<>>
    ELSE LET r == CHOOSE x \in rs : \A y \in rs : x.index <= y.index
         IN  <<r>> \o ByIndex(rs \ {r})

\* read_sms: one dict per "+CMGL:" header line and the line after it
ParseListing(rs) ==
  [i \in 1..Len(ByIndex(rs)) |->
     [index |-> ByIndex(rs)[i].index,
      phone |-> ByIndex(rs)[i].phone,
      content |-> Strip(ByIndex(rs)[i].content)]]

NewWorker(m) ==
  [msg |-> m, pc |-> "start", now |-> 0, session_exists |-> FALSE,
   step |-> NoneVal, lang |-> NoneVal,
   todo |-> <<>>, attempt |-> 0, rep |-> <<>>,
   hm |-> "running", calls |-> <<>>, dels |-> 0]

\* send_at_command entered by read_sms: SEND_LOCK taken, the command written
MainAcquire ==
  /\ mpc = "poll"
  /\ SEND_LOCK = Free
  /\ SEND_LOCK' = MainThread
  /\ mpc' = "in_read"
  /\ UNCHANGED << sessions, sessions_lock, csv_lock, clock, modem, nmsgs,
                  nthreads, workers, rpc, rnow, csv, supplied, ix >>

\* the response is read and parsed, and one thread is started per message;
\* the modem then holds the listed records as read (marks), or goes on
\* listing them until they are deleted
Poll(marks) ==
  /\ mpc = "in_read"
  /\ SEND_LOCK' = Free
  /\ mpc' = "poll"
  /\ LET msgs == ParseListing(Unread)
     IN  /\ workers' =
              [w \in DOMAIN workers \cup (nthreads + 1 .. nthreads + Len(msgs)) |->
                 IF w \in DOMAIN workers
                   THEN workers[w]
                   ELSE NewWorker(msgs[w - nthreads])]
         /\ nthreads' = nthreads + Len(msgs)
  /\ modem' = IF marks
                THEN {IF r \in Unread THEN [r EXCEPT !.stat = "REC READ"] ELSE r : r \in modem}
                ELSE modem
  /\ UNCHANGED << sessions, sessions_lock, csv_lock, clock, nmsgs, rpc, rnow, csv, supplied, ix >>

\* a poll of a modem that marks what it lists as read
MainRead == Poll(TRUE)

\* a poll of a modem that lists a record until it is deleted
MainReadRelisting == Poll(FALSE)

\* the serial port raises inside send_at_command: main logs and sleeps
MainReadFail ==
  /\ mpc = "in_read"
  /\ SEND_LOCK' = Free
  /\ mpc' = "poll"
  /\ UNCHANGED << sessions, sessions_lock, csv_lock, clock, modem, nmsgs,
                  nthreads, workers, rpc, rnow, csv, supplied, ix >>

----------------------------------------------------------------------------
(* cleanup_sessions: the reaper thread *)

ReaperNow ==
  /\ rpc = "sleep"
  /\ rpc' = "lock"
  /\ rnow' = clock
  /\ UNCHANGED << sessions, sessions_lock, csv_lock, SEND_LOCK, clock, modem,
                  nmsgs, nthreads, workers, mpc, csv, supplied, ix >>

\* a sweep that also takes the sessions whose age is the timeout itself
ExpiredAtTimeout(now) ==
  {p \in DOMAIN sessions : now - sessions[p].last_active >= SESSION_TIMEOUT}

\* line 301
Expired(now) ==
  {p \in DOMAIN sessions : now - sessions[p].last_active > SESSION_TIMEOUT}

\* lines 300-305: the sweep under sessions_lock, then the sleep; the block
\* waits for nothing, so it is one step taken when the lock is free
ReaperSweep ==
  /\ rpc = "lock"
  /\ sessions_lock = Free
  /\ sessions' = [p \in DOMAIN sessions \ Expired(rnow) |-> sessions[p]]
  /\ rpc' = "sleep"
  /\ rnow' = 0
  /\ UNCHANGED << sessions_lock, csv_lock, SEND_LOCK, clock, modem, nmsgs,
                  nthreads, workers, mpc, csv, supplied, ix >>

----------------------------------------------------------------------------
(* process_message: one worker thread per inbound message *)

Text(w) == Strip(workers[w].msg.content)

Phone(w) == workers[w].msg.phone

SetW(w, r) == [workers EXCEPT ![w] = r]

\* handle_message returns: process_message goes on to its finally block
Return(r) == [r EXCEPT !.pc = "finally", !.hm = "returned", !.todo = <<>>]

\* an exception leaves handle_message and is caught in process_message
Raise(r) == [r EXCEPT !.pc = "finally", !.hm = "raised", !.todo = <<>>]

\* handle_message goes on to send the messages ms, each by one send_sms call
Send(r, ms) == [r EXCEPT !.pc = "send", !.todo = ms, !.attempt = 0]

\* lines 190-197: the trigger gate, read without sessions_lock
HmCheck(w) ==
  /\ w \in DOMAIN workers
  /\ workers[w].pc = "start"
  /\ LET session_exists == Phone(w) \in DOMAIN sessions
         r == [workers[w] EXCEPT !.now = clock, !.session_exists = session_exists]
     IN  workers' =
           SetW(w, IF ~session_exists /\ ~Contains(Lower(Text(w)), VslaKeyword)
                     THEN [r EXCEPT !.pc = "finally", !.hm = "ignored"]
                     ELSE [r EXCEPT !.pc = "get"])
  /\ UNCHANGED << sessions, sessions_lock, csv_lock, SEND_LOCK, clock, modem,
                  nmsgs, nthreads, mpc, rpc, rnow, csv, supplied, ix >>

\* the entry of each "with sessions_lock:" block of handle_message
SessionsBlocks == {"get", "lang", "group", "answer", "finish"}

LockSessions(w) ==
  /\ w \in DOMAIN workers
  /\ workers[w].pc \in SessionsBlocks
  /\ sessions_lock = Free
  /\ sessions_lock' = WorkerThread(w)
  /\ workers' = SetW(w, [workers[w] EXCEPT !.pc = "in_" \o workers[w].pc])
  /\ UNCHANGED << sessions, csv_lock, SEND_LOCK, clock, modem, nmsgs,
                  nthreads, mpc, rpc, rnow, csv, supplied, ix >>

\* a new session that skips the language selection
NewSessionAtGroup(now) ==
  [step |-> 0, lang |-> NoneVal, answers |-> <<>>, group |-> NoneVal,
   last_active |-> now]

\* line 203
NewSession(now) ==
  [step |-> -1, lang |-> NoneVal, answers |-> <<>>, group |-> NoneVal,
   last_active |-> now]

LangOf(text) ==
  CASE text = <<"1">> -> "english"
    [] text = <<"2">> -> "chichewa"
    [] text = <<"3">> -> "tumbuka"
    [] OTHER -> NoneVal

\* lines 209-279 up to the next access to the session map, for the step and
\* lang read at lines 206-207
Branch(r, step, lang, text) ==
  CASE step = -1 ->
         IF LangOf(text) # NoneVal
           THEN [r EXCEPT !.pc = "lang", !.lang = LangOf(text)]
           ELSE Send(r, << <<LANGUAGE_MENU>> >>)
    [] step = 0 ->
         IF IsDigit(text) /\ IntRaises(text)
           THEN Raise(r)
           ELSE IF IsDigit(text) /\ 1 <= IntOf(text) /\ IntOf(text) <= 17
             THEN [r EXCEPT !.pc = "group"]
             ELSE IF lang \notin Languages
               THEN Raise(r)
               ELSE Send(r, << <<"Invalid group number. ", group_list_parts[lang][1]>>,
                               <<group_list_parts[lang][2]>> >>)
    [] step \in 1..7 ->
         IF IsDigit(text)
           THEN [r EXCEPT !.pc = "answer"]
           ELSE IF lang \notin Languages
             THEN Raise(r)
             ELSE Send(r, << <<"Invalid number. ",
                               PyIndex(followup_questions[lang], step - 1)>> >>)
    [] OTHER -> Return(r)

\* lines 200-207: get or create the session, refresh it, read step and lang
HmGet(w) ==
  /\ w \in DOMAIN workers
  /\ workers[w].pc = "in_get"
  /\ LET p == Phone(w)
         session == IF p \in DOMAIN sessions
                      THEN sessions[p]
                      ELSE NewSession(workers[w].now)
         r == [workers[w] EXCEPT !.step = session.step, !.lang = session.lang,
                                 !.now = 0]
     IN  /\ sessions' = Put(sessions, p, [session EXCEPT !.last_active = workers[w].now])
         /\ workers' = SetW(w, Branch(r, session.step, session.lang, Text(w)))
  /\ sessions_lock' = Free
  /\ UNCHANGED << csv_lock, SEND_LOCK, clock, modem, nmsgs, nthreads, mpc, rpc, rnow, csv, supplied, ix >>

\* lines 221-227: record the language, go to group selection
HmLang(w) ==
  /\ w \in DOMAIN workers
  /\ workers[w].pc = "in_lang"
  /\ LET p == Phone(w)
         r == workers[w]
     IN  IF p \notin DOMAIN sessions
           THEN /\ workers' = SetW(w, Raise(r))
                /\ UNCHANGED sessions
           ELSE /\ sessions' = [sessions EXCEPT ![p].lang = r.lang, ![p].step = 0]
                /\ workers' = SetW(w, Send(r, << <<group_list_parts[r.lang][1]>>,
                                                 <<group_list_parts[r.lang][2]>> >>))
  /\ sessions_lock' = Free
  /\ UNCHANGED << csv_lock, SEND_LOCK, clock, modem, nmsgs, nthreads, mpc, rpc, rnow, csv, supplied, ix >>

\* lines 233-241: record the group, go to the first question
HmGroup(w) ==
  /\ w \in DOMAIN workers
  /\ workers[w].pc = "in_group"
  /\ LET p == Phone(w)
         r == workers[w]
         group == groupNames[IntOf(Text(w))]
     IN  IF p \notin DOMAIN sessions
           THEN /\ workers' = SetW(w, Raise(r))
                /\ UNCHANGED sessions
           ELSE /\ sessions' = [sessions EXCEPT ![p].group = group, ![p].step = 1]
                /\ workers' =
                     SetW(w, IF r.lang \notin Languages
                               THEN Raise(r)
                               ELSE Send(r, << <<followup_questions[r.lang][1]>> >>))
  /\ sessions_lock' = Free
  /\ UNCHANGED << csv_lock, SEND_LOCK, clock, modem, nmsgs, nthreads, mpc, rpc, rnow, csv, supplied, ix >>

\* lines 253-261: append the answer, advance the step, ask the next question
HmAnswer(w) ==
  /\ w \in DOMAIN workers
  /\ workers[w].pc = "in_answer"
  /\ LET p == Phone(w)
         r == workers[w]
     IN  IF p \notin DOMAIN sessions
           THEN /\ workers' = SetW(w, Raise(r))
                /\ UNCHANGED sessions
           ELSE LET next_step == sessions[p].step + 1
                    lang_now == sessions[p].lang
                IN  /\ sessions' =
                         [sessions EXCEPT ![p].answers = Append(@, Text(w)),
                                          ![p].step = next_step]
                    /\ workers' =
                         SetW(w, IF next_step <= 7
                                   THEN IF \/ lang_now \notin Languages
                                           \/ ~PyIndexOk(followup_questions[lang_now],
                                                         next_step - 1)
                                          THEN Raise(r)
                                          ELSE Send(r, << <<PyIndex(followup_questions[lang_now],
                                                                    next_step - 1)>> >>)
                                   ELSE [r EXCEPT !.pc = "finish"])
  /\ sessions_lock' = Free
  /\ UNCHANGED << csv_lock, SEND_LOCK, clock, modem, nmsgs, nthreads, mpc, rpc, rnow, csv, supplied, ix >>

\* lines 264-271: copy the report out of the session and delete the session
HmFinish(w) ==
  /\ w \in DOMAIN workers
  /\ workers[w].pc = "in_finish"
  /\ LET p == Phone(w)
         r == workers[w]
     IN  IF p \notin DOMAIN sessions
           THEN /\ workers' = SetW(w, Raise(r))
                /\ UNCHANGED sessions
           ELSE /\ sessions' = Del(sessions, p)
                /\ workers' =
                     SetW(w, [r EXCEPT !.pc = "csv",
                                       !.rep = << [answers |-> sessions[p].answers,
                                                   group_name |-> sessions[p].group,
                                                   lang_now |-> sessions[p].lang] >>])
  /\ sessions_lock' = Free
  /\ UNCHANGED << csv_lock, SEND_LOCK, clock, modem, nmsgs, nthreads, mpc, rpc, rnow, csv, supplied, ix >>

----------------------------------------------------------------------------
(* save_to_csv *)

CsvAcquire(w) ==
  /\ w \in DOMAIN workers
  /\ workers[w].pc = "csv"
  /\ csv_lock = Free
  /\ csv_lock' = WorkerThread(w)
  /\ workers' = SetW(w, [workers[w] EXCEPT !.pc = "in_csv"])
  /\ UNCHANGED << sessions, sessions_lock, SEND_LOCK, clock, modem, nmsgs,
                  nthreads, mpc, rpc, rnow, csv, supplied, ix >>

\* a row that holds the answers last to first
RowReversed(phone, lang, group_name, answers) ==
  [phone |-> phone, lang |-> lang, group |-> group_name,
   cells |-> [i \in 1..7 |-> IF Len(answers) >= 8 - i THEN answers[8 - i] ELSE <<>>]]

\* lines 175-186: the row holds answers[0..6], "" where there is none
Row(phone, lang, group_name, answers) ==
  [phone |-> phone, lang |-> lang, group |-> group_name,
   cells |-> [i \in 1..7 |-> IF Len(answers) >= i THEN answers[i] ELSE <<>>]]

CsvWrite(w) ==
  /\ w \in DOMAIN workers
  /\ workers[w].pc = "in_csv"
  /\ LET rep == workers[w].rep[1]
     IN  csv' = Append(csv, Row(Phone(w), rep.lang_now, rep.group_name, rep.answers))
  /\ csv_lock' = Free
  /\ workers' = SetW(w, Send(workers[w], << <<THANK_YOU>> >>))
  /\ UNCHANGED << sessions, sessions_lock, SEND_LOCK, clock, modem, nmsgs,
                  nthreads, mpc, rpc, rnow, supplied, ix >>

----------------------------------------------------------------------------
(* send_sms and delete_sms: the worker's use of the modem *)

\* what one serial exchange can come to: a response with a success token,
\* a response without one, or an exception of the serial port
Responses == {"ok", "none", "raise"}

\* send_sms entering its attempt without waiting for SEND_LOCK
SendSmsUnlocked == TRUE

\* "with SEND_LOCK:" of one send_sms attempt (line 110) waits for the lock
SendSmsLockFree == SEND_LOCK = Free

SendAcquire(w) ==
  /\ w \in DOMAIN workers
  /\ workers[w].pc = "send"
  /\ SendSmsLockFree
  /\ SEND_LOCK' = WorkerThread(w)
  /\ workers' = SetW(w, [workers[w] EXCEPT !.pc = "in_send"])
  /\ UNCHANGED << sessions, sessions_lock, csv_lock, clock, modem, nmsgs,
                  nthreads, mpc, rpc, rnow, csv, supplied, ix >>

\* send_sms has returned ok for the head of todo: on to the next message,
\* or out of handle_message
Sent(r, ok) ==
  LET r2 == [r EXCEPT !.calls = Append(@, [msg |-> Head(r.todo), ok |-> ok]),
                      !.todo = Tail(@), !.attempt = 0]
  IN  IF r2.todo = <<>> THEN Return(r2) ELSE [r2 EXCEPT !.pc = "send"]

\* a loop that goes round once more than range(retries) does
AttemptsLeftOneMore(attempt) == attempt + 1 <= Retries

\* line 108: "for attempt in range(retries)" has another attempt to make
AttemptsLeft(attempt) == attempt + 1 < Retries

\* an attempt that sleeps its backoff inside "with SEND_LOCK:"
SendAttemptKeepsLock(w, resp) ==
  /\ w \in DOMAIN workers
  /\ workers[w].pc = "in_send"
  /\ LET r == workers[w]
     IN  /\ workers' =
              SetW(w, IF resp = "ok"
                        THEN Sent(r, TRUE)
                        ELSE IF AttemptsLeft(r.attempt)
                          THEN [r EXCEPT !.pc = "send", !.attempt = @ + 1]
                          ELSE Sent(r, FALSE))
         /\ SEND_LOCK' = IF resp # "ok" /\ AttemptsLeft(r.attempt)
                           THEN SEND_LOCK
                           ELSE Free
  /\ UNCHANGED << sessions, sessions_lock, csv_lock, clock, modem, nmsgs,
                  nthreads, mpc, rpc, rnow, csv, supplied, ix >>

\* lines 111-131: one attempt, from the buffer reset to the look at the response
SendAttempt(w, resp) ==
  /\ w \in DOMAIN workers
  /\ workers[w].pc = "in_send"
  /\ SEND_LOCK' = Free
  /\ LET r == workers[w]
     IN  workers' =
           SetW(w, IF resp = "ok"
                     THEN Sent(r, TRUE)
                     ELSE IF AttemptsLeft(r.attempt)
                       THEN [r EXCEPT !.pc = "send", !.attempt = @ + 1]
                       ELSE Sent(r, FALSE))
  /\ UNCHANGED << sessions, sessions_lock, csv_lock, clock, modem, nmsgs,
                  nthreads, mpc, rpc, rnow, csv, supplied, ix >>

\* a worker that deletes its message only if every reply was sent, and
\* otherwise ends
DeleteAcquireIfSent(w) ==
  /\ w \in DOMAIN workers
  /\ workers[w].pc = "finally"
  /\ IF /\ workers[w].hm = "returned"
        /\ \A i \in 1..Len(workers[w].calls) : workers[w].calls[i].ok
       THEN /\ SEND_LOCK = Free
            /\ SEND_LOCK' = WorkerThread(w)
            /\ workers' = SetW(w, [workers[w] EXCEPT !.pc = "in_delete", !.dels = @ + 1])
       ELSE /\ workers' = Del(workers, w)
            /\ UNCHANGED SEND_LOCK
  /\ UNCHANGED << sessions, sessions_lock, csv_lock, clock, modem, nmsgs,
                  nthreads, mpc, rpc, rnow, csv, supplied, ix >>

\* the finally block of process_message: delete_sms enters send_at_command
DeleteAcquire(w) ==
  /\ w \in DOMAIN workers
  /\ workers[w].pc = "finally"
  /\ SEND_LOCK = Free
  /\ SEND_LOCK' = WorkerThread(w)
  /\ workers' = SetW(w, [workers[w] EXCEPT !.pc = "in_delete", !.dels = @ + 1])
  /\ UNCHANGED << sessions, sessions_lock, csv_lock, clock, modem, nmsgs,
                  nthreads, mpc, rpc, rnow, csv, supplied, ix >>

\* AT+CMGD=index reaches the modem, or the serial port raises
\* and the thread ends
DeleteCommand(w, resp) ==
  /\ w \in DOMAIN workers
  /\ workers[w].pc = "in_delete"
  /\ SEND_LOCK' = Free
  /\ modem' = IF resp = "raise"
                THEN modem
                ELSE {r \in modem : r.index # workers[w].msg.index}
  /\ workers' = Del(workers, w)
  /\ UNCHANGED << sessions, sessions_lock, csv_lock, clock, nmsgs, nthreads,
                  mpc, rpc, rnow, csv, supplied, ix >>

----------------------------------------------------------------------------
(* The system *)

\* A session as handle_message leaves it after the trigger, a language code,
\* a group number and step - 1 answers, all handled at time 0
MidSession(step) ==
  [step |-> step, lang |-> "english",
   answers |-> [i \in 1..(step - 1) |-> <<"1">>],
   group |-> IF step >= 1 THEN groupNames[1] ELSE NoneVal,
   last_active |-> 0]

StartSteps == {0, 7}

\* The system starts with no session, or with the sender part of the way
\* through a conversation.
Init ==
  /\ \/ sessions = EmptyMap
     \/ \E k \in StartSteps : sessions = [p \in {SeqPhone} |-> MidSession(k)]
  /\ Fresh

Next ==
  \/ \E t \in Texts : Arrive(SeqPhone, t, MaxMsgs, MaxInFlight, FALSE)
  \/ \E d \in TickSteps : Tick(d)
  \/ MainAcquire
  \/ MainRead
  \/ MainReadFail
  \/ ReaperNow
  \/ ReaperSweep
  \/ \E w \in DOMAIN workers : HmCheck(w)
  \/ \E w \in DOMAIN workers : LockSessions(w)
  \/ \E w \in DOMAIN workers : HmGet(w)
  \/ \E w \in DOMAIN workers : HmLang(w)
  \/ \E w \in DOMAIN workers : HmGroup(w)
  \/ \E w \in DOMAIN workers : HmAnswer(w)
  \/ \E w \in DOMAIN workers : HmFinish(w)
  \/ \E w \in DOMAIN workers : CsvAcquire(w)
  \/ \E w \in DOMAIN workers : CsvWrite(w)
  \/ \E w \in DOMAIN workers : SendAcquire(w)
  \/ \E w \in DOMAIN workers, resp \in Responses : SendAttempt(w, resp)
  \/ \E w \in DOMAIN workers : DeleteAcquire(w)
  \/ \E w \in DOMAIN workers, resp \in {"ok", "raise"} : DeleteCommand(w, resp)

Spec == Init /\ [][Next]_vars

\* One sender whose messages are handled one at a time, each within the
\* session timeout of the one before, over a serial port that does not fail
\* on delete: the next message arrives when the worker of the last has ended.
SeqNext ==
  \/ \E t \in Texts : Arrive(SeqPhone, t, MaxSeqMsgs, 1, TRUE)
  \/ MainAcquire
  \/ MainRead
  \/ MainReadFail
  \/ ReaperNow
  \/ ReaperSweep
  \/ \E w \in DOMAIN workers : HmCheck(w)
  \/ \E w \in DOMAIN workers : LockSessions(w)
  \/ \E w \in DOMAIN workers : HmGet(w)
  \/ \E w \in DOMAIN workers : HmLang(w)
  \/ \E w \in DOMAIN workers : HmGroup(w)
  \/ \E w \in DOMAIN workers : HmAnswer(w)
  \/ \E w \in DOMAIN workers : HmFinish(w)
  \/ \E w \in DOMAIN workers : CsvAcquire(w)
  \/ \E w \in DOMAIN workers : CsvWrite(w)
  \/ \E w \in DOMAIN workers : SendAcquire(w)
  \/ \E w \in DOMAIN workers, resp \in Responses : SendAttempt(w, resp)
  \/ \E w \in DOMAIN workers : DeleteAcquire(w)
  \/ \E w \in DOMAIN workers : DeleteCommand(w, "ok")

SeqSpec == SeqInit /\ [][SeqNext]_vars

----------------------------------------------------------------------------
(* Per-sender ordering *)

\* The worker has read the session's step (line 206).
HasReadStep(w) ==
  /\ workers[w].pc \notin {"start", "get", "in_get"}
  /\ workers[w].hm # "ignored"

\* The worker has yet to pass the gate, or has its session write ahead of it.
TransitionPending(w) ==
  workers[w].pc \in {"start", "get", "in_get", "lang", "in_lang", "group",
                     "in_group", "answer", "in_answer", "finish", "in_finish"}

\* C1: two messages of one sender are applied in arrival order: the later
\* message's worker reads the session's step only once the earlier message's
\* worker has completed its transition on the session.
C1_ArrivalOrder ==
  \A w1 \in DOMAIN workers, w2 \in DOMAIN workers :
    /\ Phone(w1) = Phone(w2)
    /\ workers[w1].msg.index < workers[w2].msg.index
    /\ HasReadStep(w2)
    => ~TransitionPending(w1)

----------------------------------------------------------------------------
(* The modem's command/response cycle *)

\* The threads between the buffer reset and the read_all of a cycle
InCycle ==
  {WorkerThread(w) : w \in {x \in DOMAIN workers :
                              workers[x].pc \in {"in_send", "in_delete"}}}
    \cup (IF mpc = "in_read" THEN {MainThread} ELSE {})

\* C2: at most one modem command/response cycle is in flight at any time.
C2_OneCycleInFlight == Cardinality(InCycle) <= 1

\* A send_sms attempt holds the modem while another worker waits to send or
\* to delete and main is between polls.
C2_Witness ==
  \E w1 \in DOMAIN workers, w2 \in DOMAIN workers :
    /\ workers[w1].pc = "in_send"
    /\ workers[w2].pc \in {"send", "finally"}
    /\ mpc = "poll"

----------------------------------------------------------------------------
(* The trigger gate *)

\* The text contains "vsla" in some letter case.
HasTrigger(t) ==
  \E i \in 1..(Len(t) - 3) :
    /\ t[i] \in {"v", "V"}
    /\ t[i + 1] \in {"s", "S"}
    /\ t[i + 2] \in {"l", "L"}
    /\ t[i + 3] \in {"a", "A"}

\* C3: every session that enters the store was created by a message that
\* contains the trigger keyword: a sender gains a session only in a step of
\* a worker whose message has the keyword.
C3_OnlyTriggerCreates ==
  [][\A p \in {SeqPhone} :
       (p \notin DOMAIN sessions /\ p \in DOMAIN sessions')
         => \E w \in DOMAIN workers :
              /\ sessions_lock = WorkerThread(w)
              /\ Phone(w) = p
              /\ HasTrigger(workers[w].msg.content)]_vars

----------------------------------------------------------------------------
(* The conversation, one message at a time *)

\* handle_message is over for the worker's message.
Handled(w) == workers[w].pc \in {"finally", "in_delete"}

\* The bodies handed to send_sms by the worker, in order
Replies(w) == [i \in 1..Len(workers[w].calls) |-> workers[w].calls[i].msg]

\* C4: a message with the trigger keyword, in any letter case, from a sender
\* with no session leaves a new session in the language-selection state
\* (step -1, no language, no group, no answers) and sends exactly one reply,
\* the language menu.
C4_TriggerOpensSession ==
  \A w \in DOMAIN workers :
    (Handled(w) /\ ~workers[w].session_exists /\ HasTrigger(workers[w].msg.content))
      => /\ workers[w].hm = "returned"
         /\ Replies(w) = << <<LANGUAGE_MENU>> >>
         /\ Phone(w) \in DOMAIN sessions
         /\ sessions[Phone(w)].step = -1
         /\ sessions[Phone(w)].lang = NoneVal
         /\ sessions[Phone(w)].group = NoneVal
         /\ sessions[Phone(w)].answers = <<>>

C4_Witness ==
  \E w \in DOMAIN workers :
    /\ workers[w].pc = "in_delete"
    /\ ~workers[w].session_exists
    /\ HasTrigger(workers[w].msg.content)
    /\ Replies(w) = << <<LANGUAGE_MENU>> >>
    /\ nmsgs > 1

\* a string of decimal digits
AllDecimal(t) == t # <<>> /\ \A i \in 1..Len(t) : t[i] \in DecimalChars

\* The input fails the validation of the step.
InvalidInput(step, t) ==
  \/ step = -1 /\ t \notin {<<"1">>, <<"2">>, <<"3">>}
  \/ step = 0 /\ ~(AllDecimal(t) /\ 1 <= IntOf(t) /\ IntOf(t) <= 17)
  \/ step \in 1..7 /\ ~IsDigit(t)

\* The prompt of the step, as it is sent again after an invalid input
Reprompt(step, lang) ==
  CASE step = -1 -> << <<LANGUAGE_MENU>> >>
    [] step = 0 -> << <<"Invalid group number. ", group_list_parts[lang][1]>>,
                      <<group_list_parts[lang][2]>> >>
    [] OTHER -> << <<"Invalid number. ", followup_questions[lang][step]>> >>

\* C5: an input that fails the validation of the stored session's step
\* leaves step, lang and the answers as they were and re-sends the prompt of
\* the step.
C5_InvalidReprompts ==
  \A w \in DOMAIN workers :
    (/\ Handled(w)
     /\ workers[w].session_exists
     /\ workers[w].step \in -1..7
     /\ InvalidInput(workers[w].step, Text(w)))
      => /\ Replies(w) = Reprompt(workers[w].step, workers[w].lang)
         /\ Phone(w) \in DOMAIN sessions
         /\ sessions[Phone(w)].step = workers[w].step
         /\ sessions[Phone(w)].lang = workers[w].lang
         /\ Len(sessions[Phone(w)].answers) =
              IF workers[w].step >= 1 THEN workers[w].step - 1 ELSE 0


\* The language of a language code
ChosenLanguage(t) ==
  CASE t = <<"1">> -> "english" [] t = <<"2">> -> "chichewa" [] t = <<"3">> -> "tumbuka"

\* The tenth valid input of the conversation is the last message received,
\* and handle_message is over for it.
ConversationDone ==
  /\ Len(supplied.seq) = 10
  /\ supplied.at = nmsgs
  /\ Unread = {}
  /\ \A w \in DOMAIN workers : Handled(w)

\* C6: after the trigger, a language code and a group number g, the seventh
\* all-digit answer (invalid inputs between them or not) results in exactly
\* one saved report, with the sender, the language, groupNames[g] and the
\* seven answers in the order supplied; the session is then gone and the
\* last reply is the thank-you message.
C6_ReportOfSevenAnswers ==
  /\ Len(supplied.seq) < 10 => csv = <<>>
  /\ ConversationDone =>
       /\ csv = << [phone |-> SeqPhone,
                    lang |-> ChosenLanguage(supplied.seq[2]),
                    group |-> groupNames[IntOf(supplied.seq[3])],
                    cells |-> [i \in 1..7 |-> supplied.seq[3 + i]]] >>
       /\ SeqPhone \notin DOMAIN sessions
       /\ \A w \in DOMAIN workers : Replies(w) = << <<THANK_YOU>> >>

C6_Witness ==
  /\ ConversationDone
  /\ nmsgs > 10
  /\ supplied.seq[4] # supplied.seq[5]
  /\ Len(csv) = 1
  /\ \E w \in DOMAIN workers : workers[w].pc = "in_delete"


----------------------------------------------------------------------------
(* Acknowledgment *)

\* every step worker w can take
WorkerStep(w) ==
  \/ HmCheck(w) \/ LockSessions(w) \/ HmGet(w) \/ HmLang(w) \/ HmGroup(w)
  \/ HmAnswer(w) \/ HmFinish(w) \/ CsvAcquire(w) \/ CsvWrite(w)
  \/ SendAcquire(w)
  \/ \E resp \in Responses : SendAttempt(w, resp)
  \/ DeleteAcquire(w)
  \/ \E resp \in {"ok", "raise"} : DeleteCommand(w, resp)

\* Threads are scheduled: the main thread leaves read_sms, the reaper leaves
\* its sweep, and a worker that can step again and again does step (a lock
\* that is released again and again is acquired by the thread that waits).
Fairness ==
  /\ WF_vars(MainRead \/ MainReadFail)
  /\ WF_vars(ReaperSweep)
  /\ \A w \in 1..MaxMsgs : SF_vars(WorkerStep(w))

\* The system with the texts that take a conversation forward, all handled
\* within the session timeout of the start
FairTexts == {<<" ", "V", "s", "L", "a">>, <<"1">>}

FairNext ==
  \/ \E t \in FairTexts : Arrive(SeqPhone, t, MaxMsgs, MaxInFlight, FALSE)
  \/ MainAcquire
  \/ MainRead
  \/ MainReadFail
  \/ ReaperNow
  \/ ReaperSweep
  \/ \E w \in DOMAIN workers : HmCheck(w)
  \/ \E w \in DOMAIN workers : LockSessions(w)
  \/ \E w \in DOMAIN workers : HmGet(w)
  \/ \E w \in DOMAIN workers : HmLang(w)
  \/ \E w \in DOMAIN workers : HmGroup(w)
  \/ \E w \in DOMAIN workers : HmAnswer(w)
  \/ \E w \in DOMAIN workers : HmFinish(w)
  \/ \E w \in DOMAIN workers : CsvAcquire(w)
  \/ \E w \in DOMAIN workers : CsvWrite(w)
  \/ \E w \in DOMAIN workers : SendAcquire(w)
  \/ \E w \in DOMAIN workers, resp \in Responses : SendAttempt(w, resp)
  \/ \E w \in DOMAIN workers : DeleteAcquire(w)
  \/ \E w \in DOMAIN workers, resp \in {"ok", "raise"} : DeleteCommand(w, resp)

FairSpec == Init /\ [][FairNext]_vars /\ Fairness

\* C7: every worker issues the delete command of its message exactly once,
\* as its last act, once handle_message has finished with every send_sms
\* call over - whether handle_message returned, ignored the message or
\* raised, and whether its sends succeeded or not - and every worker started
\* comes to that end.
C7_DeleteOnceAndLast ==
  /\ [][\A w \in DOMAIN workers :
          /\ (w \in DOMAIN workers' /\ workers'[w].dels # workers[w].dels) =>
               /\ workers[w].dels = 0 /\ workers'[w].dels = 1
               /\ workers[w].pc = "finally"
               /\ workers[w].hm # "running"
               /\ workers[w].todo = <<>>
               /\ workers'[w].pc = "in_delete"
          /\ w \notin DOMAIN workers' =>
               /\ workers[w].dels = 1
               /\ workers[w].pc = "in_delete"]_vars
  /\ \A w \in 1..MaxMsgs : (w \in DOMAIN workers) ~> (w \notin DOMAIN workers)

\* a delete command in flight after a raise, and one after a send that failed
C7_Witness ==
  \E w \in DOMAIN workers :
    /\ workers[w].pc = "in_delete"
    /\ \/ workers[w].hm = "raised"
       \/ \E i \in 1..Len(workers[w].calls) : ~workers[w].calls[i].ok


----------------------------------------------------------------------------
(* send_sms *)

\* the most send_sms calls one handle_message makes
MaxCalls == Len(group_list_parts.english)

InSendSms(w) == w \in DOMAIN workers /\ workers[w].pc \in {"send", "in_send"}

\* C8: an attempt of send_sms whose response holds a success token makes
\* the call return True with no further attempt; an attempt without one, or
\* one that raises, is followed by another attempt while fewer than 3 have
\* been made, and by the return of False at the third; nothing escapes, no
\* call makes more than 3 attempts, and every call returns.
C8_SendSmsAttempts ==
  /\ [][\A w \in DOMAIN workers, resp \in Responses :
          SendAttempt(w, resp) =>
            LET r  == workers[w]
                r2 == workers'[w]
                n  == r.attempt + 1
            IN  /\ n <= 3
                /\ r2.hm # "raised"
                /\ resp = "ok" =>
                     r2.calls = Append(r.calls, [msg |-> Head(r.todo), ok |-> TRUE])
                /\ (resp # "ok" /\ n < 3) =>
                     /\ r2.calls = r.calls
                     /\ r2.todo = r.todo
                     /\ r2.pc = "send"
                     /\ r2.attempt = n
                /\ (resp # "ok" /\ n = 3) =>
                     r2.calls = Append(r.calls, [msg |-> Head(r.todo), ok |-> FALSE])]_vars
  /\ \A w \in 1..MaxMsgs, c \in 0..MaxCalls :
       (InSendSms(w) /\ Len(workers[w].calls) = c)
         ~> (w \notin DOMAIN workers \/ Len(workers[w].calls) > c)

\* the third attempt of a call is in flight, after a call that returned False
C8_Witness ==
  \E w \in DOMAIN workers :
    /\ workers[w].pc = "in_send"
    /\ workers[w].attempt = 2
    /\ \E i \in 1..Len(workers[w].calls) : ~workers[w].calls[i].ok


----------------------------------------------------------------------------
(* cleanup_sessions *)

\* C9: one sweep removes every session whose last_active is more than
\* SESSION_TIMEOUT before the time the sweep read, keeps every other session
\* as it is, and removes no session that is younger than the timeout when
\* it goes.
C9_SweepRemovesExpiredOnly ==
  [][(rpc = "lock" /\ rpc' = "sleep") =>
       /\ DOMAIN sessions' \subseteq DOMAIN sessions
       /\ \A p \in DOMAIN sessions :
            /\ rnow - sessions[p].last_active > SESSION_TIMEOUT =>
                 p \notin DOMAIN sessions'
            /\ rnow - sessions[p].last_active <= SESSION_TIMEOUT =>
                 /\ p \in DOMAIN sessions'
                 /\ sessions'[p] = sessions[p]
            /\ p \notin DOMAIN sessions' =>
                 clock - sessions[p].last_active > SESSION_TIMEOUT]_vars

\* a sweep is about to run over a session whose age is the timeout itself
C9_Witness ==
  /\ rpc = "lock"
  /\ sessions_lock = Free
  /\ \E p \in DOMAIN sessions : rnow - sessions[p].last_active = SESSION_TIMEOUT

----------------------------------------------------------------------------
(* The stored step *)

\* C10: every session in the store has a step from -1 to 7.
C10_NoStoredComplete ==
  \A p \in DOMAIN sessions : sessions[p].step \in -1..7


----------------------------------------------------------------------------
(* The shape of a stored session *)

\* C11: every stored session has no answers while its step is -1 or 0 and
\* step - 1 answers while its step is from 1 to 7.
C11_AnswersMatchStep ==
  \A p \in DOMAIN sessions :
    /\ sessions[p].step \in {-1, 0} => sessions[p].answers = <<>>
    /\ sessions[p].step \in 1..7 => Len(sessions[p].answers) = sessions[p].step - 1


\* The worker is in the lock section that writes the step (lines 221-223,
\* 235-237, 253-257).
WritesStep(w) == workers[w].pc \in {"in_lang", "in_group", "in_answer"}

\* C12: over the lifetime of a session its step never decreases, every
\* write to the step stores a value greater than the one stored before, and
\* a language or group once chosen is not written again.
C12_StepOnlyForward ==
  [][\A p \in DOMAIN sessions :
       p \in DOMAIN sessions' =>
         /\ sessions'[p].step >= sessions[p].step
         /\ (\E w \in DOMAIN workers :
               /\ Phone(w) = p
               /\ WritesStep(w)
               /\ sessions_lock = WorkerThread(w)
               /\ sessions_lock' = Free)
              => sessions'[p].step > sessions[p].step
         /\ sessions[p].lang # NoneVal => sessions'[p].lang = sessions[p].lang
         /\ sessions[p].group # NoneVal => sessions'[p].group = sessions[p].group]_vars


----------------------------------------------------------------------------
(* The report *)

\* The worker is in save_to_csv with the report it copied out of the session.
InSaveToCsv(w) == workers[w].pc \in {"csv", "in_csv"}

\* C13: every report handed to save_to_csv carries exactly 7 answers, a
\* language and a group.
C13_ReportHasSevenAnswers ==
  \A w \in DOMAIN workers :
    InSaveToCsv(w) =>
      /\ Len(workers[w].rep[1].answers) = 7
      /\ workers[w].rep[1].lang_now \in Languages
      /\ workers[w].rep[1].group_name \in {groupNames[g] : g \in 1..17}


\* C14: on completion the session leaves the store only after its report
\* has been saved: while a worker has yet to write the report it took from
\* the session, the session is still in the store.
C14_SessionOutlivesSave ==
  \A w \in DOMAIN workers : InSaveToCsv(w) => Phone(w) \in DOMAIN sessions


----------------------------------------------------------------------------
(* Deletion and the workers *)

\* The worker has read the step and has its write to the session ahead.
Advancing(w) ==
  workers[w].pc \in {"lang", "in_lang", "group", "in_group", "answer",
                     "in_answer", "finish", "in_finish"}

\* C15: a session whose step a worker has read stays in the store until
\* that worker has made its write to it.
C15_NoDeleteWhileAdvancing ==
  \A w \in DOMAIN workers : Advancing(w) => Phone(w) \in DOMAIN sessions


----------------------------------------------------------------------------
(* A modem that lists a record until it is deleted *)

\* main polls again, up to MaxDeliveries worker threads in all
RelistAcquire == nthreads < MaxDeliveries /\ MainAcquire

\* The sender has no session, or is at the language selection, the group
\* selection or the last question.
RelistSteps == {-1, 0, 7}

RelistInit ==
  /\ \/ sessions = EmptyMap
     \/ \E k \in RelistSteps :
          sessions = [p \in {SeqPhone} |-> IF k = -1 THEN NewSession(0) ELSE MidSession(k)]
  /\ Fresh

\* The system over a modem whose "list unread" response holds every record
\* that has not been deleted, listed or not, all handled within the session
\* timeout of the start.
RelistNext ==
  \/ \E t \in FairTexts : Arrive(SeqPhone, t, MaxRelistMsgs, MaxRelistMsgs, FALSE)
  \/ RelistAcquire
  \/ MainReadRelisting
  \/ MainReadFail
  \/ ReaperNow
  \/ ReaperSweep
  \/ \E w \in DOMAIN workers : HmCheck(w)
  \/ \E w \in DOMAIN workers : LockSessions(w)
  \/ \E w \in DOMAIN workers : HmGet(w)
  \/ \E w \in DOMAIN workers : HmLang(w)
  \/ \E w \in DOMAIN workers : HmGroup(w)
  \/ \E w \in DOMAIN workers : HmAnswer(w)
  \/ \E w \in DOMAIN workers : HmFinish(w)
  \/ \E w \in DOMAIN workers : CsvAcquire(w)
  \/ \E w \in DOMAIN workers : CsvWrite(w)
  \/ \E w \in DOMAIN workers : SendAcquire(w)
  \/ \E w \in DOMAIN workers, resp \in Responses : SendAttempt(w, resp)
  \/ \E w \in DOMAIN workers : DeleteAcquire(w)
  \/ \E w \in DOMAIN workers, resp \in {"ok", "raise"} : DeleteCommand(w, resp)

RelistSpec == RelistInit /\ [][RelistNext]_vars

\* C16: over a modem that lists a record until it is deleted, no modem
\* index is in the hands of two process_message workers.
C16_OneWorkerPerIndex ==
  \A w1 \in DOMAIN workers, w2 \in DOMAIN workers :
    workers[w1].msg.index = workers[w2].msg.index => w1 = w2


\* main polls again once the worker of the last poll has ended
RedeliverAcquire == workers = EmptyMap /\ RelistAcquire

\* One message at a time over the modem that lists a record until it is
\* deleted: a message whose delete command failed is listed by the next
\* poll and handled again.
RedeliverNext ==
  \/ \E t \in FairTexts : Arrive(SeqPhone, t, MaxRelistMsgs, MaxRelistMsgs, FALSE)
  \/ RedeliverAcquire
  \/ MainReadRelisting
  \/ MainReadFail
  \/ ReaperNow
  \/ ReaperSweep
  \/ \E w \in DOMAIN workers : HmCheck(w)
  \/ \E w \in DOMAIN workers : LockSessions(w)
  \/ \E w \in DOMAIN workers : HmGet(w)
  \/ \E w \in DOMAIN workers : HmLang(w)
  \/ \E w \in DOMAIN workers : HmGroup(w)
  \/ \E w \in DOMAIN workers : HmAnswer(w)
  \/ \E w \in DOMAIN workers : HmFinish(w)
  \/ \E w \in DOMAIN workers : CsvAcquire(w)
  \/ \E w \in DOMAIN workers : CsvWrite(w)
  \/ \E w \in DOMAIN workers : SendAcquire(w)
  \/ \E w \in DOMAIN workers, resp \in Responses : SendAttempt(w, resp)
  \/ \E w \in DOMAIN workers : DeleteAcquire(w)
  \/ \E w \in DOMAIN workers, resp \in {"ok", "raise"} : DeleteCommand(w, resp)

RedeliverSpec == RelistInit /\ [][RedeliverNext]_vars

\* The worker has a message that an earlier worker has handled to the end.
Redelivered(w) == nmsgs = 1 /\ w > 1

\* The session apart from the time of its last message
Content(s) == [s EXCEPT !.last_active = 0]

\* C17: handling a message again, after its first handling is over and its
\* delete command failed, leaves the sessions and the saved reports as the
\* first handling left them.
C17_RedeliveryChangesNothing ==
  [][(\E w \in DOMAIN workers : Redelivered(w)) =>
       /\ csv' = csv
       /\ DOMAIN sessions' = DOMAIN sessions
       /\ \A p \in DOMAIN sessions : Content(sessions'[p]) = Content(sessions[p])]_vars


----------------------------------------------------------------------------
(* index.py: the earlier version of the bot.  Sessions are dict objects:   *)
(* ix.heap holds the objects, ix.sessions maps a sender to its object, and *)
(* a worker keeps the object it got at lines 118-126.                      *)

MaxIxMsgs == 2

IxReplies ==
  [welcome |-> "Welcome! Choose your group number (1-17):",
   start   |-> "Please start your message with 'VSLA' to report.",
   thanks  |-> "Thank you! Your report has been received.",
   error   |-> "Error processing input. Please try again."]

\* the data key a valid input of the step is stored under, the prompt sent
\* after it and the prompt sent after an invalid input (lines 140-185)
IxSteps ==
  [s \in 1..6 |->
     CASE s = 1 -> [key |-> "group_name", next |-> "Enter amount saved:",
                    invalid |-> "Invalid group number. Choose 1-17:"]
       [] s = 2 -> [key |-> "amount_saved", next |-> "Enter attendance:",
                    invalid |-> "Invalid number. Enter amount saved:"]
       [] s = 3 -> [key |-> "attendance", next |-> "Enter social fund amount:",
                    invalid |-> "Invalid number. Enter attendance:"]
       [] s = 4 -> [key |-> "social_fund", next |-> "Enter loans taken:",
                    invalid |-> "Invalid number. Enter social fund amount:"]
       [] s = 5 -> [key |-> "loans_taken", next |-> "Enter loans repaid:",
                    invalid |-> "Invalid number. Enter loans taken:"]
       [] s = 6 -> [key |-> "loans_repaid", next |-> IxReplies.thanks,
                    invalid |-> "Invalid number. Enter loans repaid:"]]

\* the keys save_to_csv reads (lines 104-110)
IxRowKeys ==
  {"phone", "group_name", "amount_saved", "attendance", "social_fund",
   "loans_taken", "loans_repaid"}

IxUnread == {r \in ix.modem : r.stat = "REC UNREAD"}

IxArrive(p, t) ==
  /\ ix.nmsgs < MaxIxMsgs
  /\ ix' = [ix EXCEPT
              !.nmsgs = @ + 1,
              !.modem = @ \cup {[index |-> ix.nmsgs + 1, phone |-> p,
                                 content |-> t, stat |-> "REC UNREAD"]}]
  /\ UNCHANGED << sessions, sessions_lock, csv_lock, SEND_LOCK, clock, modem,
                  nmsgs, nthreads, workers, mpc, rpc, rnow, csv, supplied >>

IxTick ==
  /\ ix.clock = 0
  /\ ix' = [ix EXCEPT !.clock = SESSION_TIMEOUT + 1]
  /\ UNCHANGED << sessions, sessions_lock, csv_lock, SEND_LOCK, clock, modem,
                  nmsgs, nthreads, workers, mpc, rpc, rnow, csv, supplied >>

IxNewWorker(m) ==
  [msg |-> m, pc |-> "start", session |-> 0, session_exists |-> FALSE,
   reply |-> ""]

\* lines 223-225: read_sms, then one thread per message
IxPoll ==
  /\ LET msgs == ParseListing(IxUnread)
     IN  ix' = [ix EXCEPT
                  !.workers =
                    [w \in DOMAIN ix.workers
                             \cup (ix.nthreads + 1 .. ix.nthreads + Len(msgs)) |->
                       IF w \in DOMAIN ix.workers
                         THEN ix.workers[w]
                         ELSE IxNewWorker(msgs[w - ix.nthreads])],
                  !.nthreads = @ + Len(msgs),
                  !.modem = {IF r \in IxUnread THEN [r EXCEPT !.stat = "REC READ"]
                                                ELSE r : r \in ix.modem}]
  /\ IxUnread # {}
  /\ UNCHANGED << sessions, sessions_lock, csv_lock, SEND_LOCK, clock, modem,
                  nmsgs, nthreads, workers, mpc, rpc, rnow, csv, supplied >>

\* lines 207-211: one sweep of cleanup_sessions
IxReaperSweep ==
  /\ \E p \in DOMAIN ix.sessions :
       ix.clock - ix.heap[ix.sessions[p]].last_active > SESSION_TIMEOUT
  /\ ix' = [ix EXCEPT
              !.sessions =
                [p \in {q \in DOMAIN ix.sessions :
                          ~(ix.clock - ix.heap[ix.sessions[q]].last_active
                              > SESSION_TIMEOUT)} |-> ix.sessions[p]]]
  /\ UNCHANGED << sessions, sessions_lock, csv_lock, SEND_LOCK, clock, modem,
                  nmsgs, nthreads, workers, mpc, rpc, rnow, csv, supplied >>


IxSetW(w, r) == [ix.workers EXCEPT ![w] = r]

\* lines 118-126: get the sender's session object, or create it
IxGetOrCreate(w) ==
  /\ w \in DOMAIN ix.workers
  /\ ix.workers[w].pc = "start"
  /\ LET p == ix.workers[w].msg.phone
         r == ix.workers[w]
     IN  IF p \in DOMAIN ix.sessions
           THEN ix' = [ix EXCEPT
                         !.workers = IxSetW(w, [r EXCEPT !.pc = "handle",
                                                         !.session = ix.sessions[p],
                                                         !.session_exists = TRUE])]
           ELSE ix' = [ix EXCEPT
                         !.heap = Append(@, [step |-> 0, data |-> EmptyMap,
                                             last_active |-> ix.clock]),
                         !.sessions = Put(@, p, Len(ix.heap) + 1),
                         !.workers = IxSetW(w, [r EXCEPT !.pc = "handle",
                                                         !.session = Len(ix.heap) + 1])]
  /\ UNCHANGED << sessions, sessions_lock, csv_lock, SEND_LOCK, clock, modem,
                  nmsgs, nthreads, workers, mpc, rpc, rnow, csv, supplied >>

\* lines 133-187 on the session object s: the object as it is left, the
\* reply, whether save_to_csv wrote the row and whether line 183 is reached
IxOutcome(s, phone, msg) ==
  LET same(reply) == [s |-> s, reply |-> reply, saved |-> FALSE, del |-> FALSE]
      stored(v) == [s EXCEPT !.data = Put(@, IxSteps[s.step].key, v),
                             !.step = @ + 1]
  IN  CASE s.step = 0 ->
             IF Contains(Lower(msg), VslaKeyword)
               THEN [same(IxReplies.welcome) EXCEPT !.s = [s EXCEPT !.step = 1]]
               ELSE same(IxReplies.start)
        [] s.step = 1 ->
             IF IsDigit(msg) /\ IntRaises(msg)
               THEN same(IxReplies.error)
               ELSE IF IsDigit(msg) /\ 1 <= IntOf(msg) /\ IntOf(msg) <= 17
                 THEN [same(IxSteps[1].next) EXCEPT !.s = stored(groupNames[IntOf(msg)])]
                 ELSE same(IxSteps[1].invalid)
        [] s.step \in 2..5 ->
             IF IsDigit(msg)
               THEN [same(IxSteps[s.step].next) EXCEPT !.s = stored(msg)]
               ELSE same(IxSteps[s.step].invalid)
        [] s.step = 6 ->
             IF IsDigit(msg)
               THEN LET data == Put(Put(s.data, "loans_repaid", msg), "phone", phone)
                        s2 == [s EXCEPT !.data = data]
                    IN  IF IxRowKeys \subseteq DOMAIN data
                          THEN [s |-> s2, reply |-> IxReplies.thanks,
                                saved |-> TRUE, del |-> TRUE]
                          ELSE [s |-> s2, reply |-> IxReplies.error,
                                saved |-> FALSE, del |-> FALSE]
               ELSE same(IxSteps[6].invalid)
        [] OTHER -> same("")

\* lines 128-189: the rest of handle_response, outside sessions_lock
IxHandle(w) ==
  /\ w \in DOMAIN ix.workers
  /\ ix.workers[w].pc = "handle"
  /\ LET r == ix.workers[w]
         p == r.msg.phone
         o == r.session
         out == IxOutcome([ix.heap[o] EXCEPT !.last_active = ix.clock], p,
                          Strip(r.msg.content))
         missing == out.del /\ p \notin DOMAIN ix.sessions
     IN  ix' = [ix EXCEPT
                  !.heap = [@ EXCEPT ![o] = out.s],
                  !.csv = IF out.saved THEN Append(@, out.s.data) ELSE @,
                  !.sessions = IF out.del THEN Del(@, p) ELSE @,
                  !.workers = IxSetW(w, [r EXCEPT
                                           !.pc = "send",
                                           !.reply = IF missing THEN IxReplies.error
                                                               ELSE out.reply])]
  /\ UNCHANGED << sessions, sessions_lock, csv_lock, SEND_LOCK, clock, modem,
                  nmsgs, nthreads, workers, mpc, rpc, rnow, csv, supplied >>

\* lines 50-61 and 197-201: send_sms, once; on False, or when the serial
\* port raises, the thread ends
IxSend(w, resp) ==
  /\ w \in DOMAIN ix.workers
  /\ ix.workers[w].pc = "send"
  /\ ix' = [ix EXCEPT
              !.workers = IF resp = "ok"
                            THEN IxSetW(w, [ix.workers[w] EXCEPT !.pc = "mark"])
                            ELSE Del(@, w)]
  /\ UNCHANGED << sessions, sessions_lock, csv_lock, SEND_LOCK, clock, modem,
                  nmsgs, nthreads, workers, mpc, rpc, rnow, csv, supplied >>

\* lines 83-84 and 198: AT+CMGD=index,1 deletes the read messages; the
\* thread ends
IxMark(w, resp) ==
  /\ w \in DOMAIN ix.workers
  /\ ix.workers[w].pc = "mark"
  /\ ix' = [ix EXCEPT
              !.modem = IF resp = "raise" THEN @
                          ELSE {r \in @ : r.stat # "REC READ"},
              !.workers = Del(@, w)]
  /\ UNCHANGED << sessions, sessions_lock, csv_lock, SEND_LOCK, clock, modem,
                  nmsgs, nthreads, workers, mpc, rpc, rnow, csv, supplied >>

\* index.py starts with no session, or with the sender at its group
\* selection or at its last question.
IxStartSteps == {1, 6}

IxMidSession(step) ==
  [step |-> step,
   data |-> [k \in {IxSteps[s].key : s \in 1..(step - 1)} |->
               IF k = "group_name" THEN groupNames[1] ELSE <<"1">>],
   last_active |-> 0]

IndexInit ==
  /\ sessions = EmptyMap
  /\ FullBotFresh
  /\ \/ ix = IxIdle
     \/ \E k \in IxStartSteps :
          ix = [IxIdle EXCEPT !.heap = <<IxMidSession(k)>>,
                              !.sessions = [p \in {SeqPhone} |-> 1]]

IndexNext ==
  \/ \E t \in Texts : IxArrive(SeqPhone, t)
  \/ IxTick
  \/ IxPoll
  \/ IxReaperSweep
  \/ \E w \in DOMAIN ix.workers : IxGetOrCreate(w)
  \/ \E w \in DOMAIN ix.workers : IxHandle(w)
  \/ \E w \in DOMAIN ix.workers, resp \in Responses : IxSend(w, resp)
  \/ \E w \in DOMAIN ix.workers, resp \in {"ok", "raise"} : IxMark(w, resp)

IndexSpec == IndexInit /\ [][IndexNext]_vars

\* C18: in index.py a message without the trigger keyword from a sender
\* with no session creates no session and is given no reply.
C18_IndexIgnoresNoTrigger ==
  \A w \in DOMAIN ix.workers :
    (/\ ix.workers[w].pc # "start"
     /\ ~ix.workers[w].session_exists
     /\ ~HasTrigger(ix.workers[w].msg.content))
      => /\ ix.workers[w].msg.phone \notin DOMAIN ix.sessions
         /\ ix.workers[w].pc \notin {"send", "mark"}

\* C19: in index.py every worker issues the delete command of its message
\* before it ends, whether send_sms succeeded or not.
C19_IndexAlwaysAcknowledges ==
  [][\A w \in DOMAIN ix.workers :
       w \notin DOMAIN ix'.workers => ix.workers[w].pc = "mark"]_vars


----------------------------------------------------------------------------
(* Locks and progress *)

\* Every thread that can run does run, and no more: a thread that waits
\* for a lock may find it taken each time it looks.
WeakFairness ==
  /\ WF_vars(MainAcquire)
  /\ WF_vars(MainRead \/ MainReadFail)
  /\ WF_vars(ReaperNow)
  /\ WF_vars(ReaperSweep)
  /\ \A w \in 1..MaxMsgs : WF_vars(WorkerStep(w))

WeakFairSpec == Init /\ [][FairNext]_vars /\ WeakFairness

\* A thread that finds a lock free again and again acquires it.
LocksAreFair ==
  /\ SF_vars(MainAcquire)
  /\ SF_vars(ReaperSweep)
  /\ \A w \in 1..MaxMsgs : SF_vars(WorkerStep(w))

\* Each lock is held by a thread exactly while the thread is inside the
\* "with" block of that lock: a thread holds at most one lock, holds none
\* once it has left the block by a return or an exception, and does not
\* hold SEND_LOCK between the attempts of send_sms.
LocksFollowBlocks ==
  /\ SEND_LOCK = MainThread <=> mpc = "in_read"
  /\ sessions_lock # MainThread /\ csv_lock # MainThread
  /\ \A w \in 1..MaxMsgs :
       /\ sessions_lock = WorkerThread(w) <=>
            (w \in DOMAIN workers /\
             workers[w].pc \in {"in_get", "in_lang", "in_group", "in_answer", "in_finish"})
       /\ csv_lock = WorkerThread(w) <=>
            (w \in DOMAIN workers /\ workers[w].pc = "in_csv")
       /\ SEND_LOCK = WorkerThread(w) <=>
            (w \in DOMAIN workers /\ workers[w].pc \in {"in_send", "in_delete"})

\* Every worker ends, every poll of main and every sweep of the reaper
\* gets its lock.
AllProgress ==
  /\ \A w \in 1..MaxMsgs : (w \in DOMAIN workers) ~> (w \notin DOMAIN workers)
  /\ (mpc = "poll") ~> (mpc = "in_read")
  /\ (rpc = "lock") ~> (rpc = "sleep")

----------------------------------------------------------------------------
(* Two senders *)

MaxIsoMsgs == 2

OtherPhone == "265993334444"

IsoPhones == {SeqPhone, OtherPhone}

\* The first n valid inputs of a conversation in English for the first
\* group, every answer "1"
IsoHistory(n) ==
  [i \in 1..n |-> IF i = 1 THEN <<" ", "V", "s", "L", "a">> ELSE <<"1">>]

\* The session handle_message has left after the valid inputs h, all
\* handled at time 0: none before the trigger, otherwise one at step
\* Len(h) - 2
IsoSessionAfter(h) ==
  CASE Len(h) = 0 -> <<>>
    [] Len(h) = 1 -> << NewSession(0) >>
    [] OTHER -> << MidSession(Len(h) - 2) >>

\* The places of a conversation the senders start at
IsoStarts == {0, 1, 2, 9}

\* SeqPhone has no session, or is at the language selection, the group
\* selection or the last question, with the inputs that took it there on
\* record; OtherPhone has no session or is at the last question.
IsolationInit ==
  /\ \E n \in IsoStarts, m \in {0, 9} :
       /\ sessions =
            [p \in {q \in IsoPhones : IsoSessionAfter(IsoHistory(IF q = SeqPhone THEN n ELSE m)) # <<>>} |->
               IsoSessionAfter(IsoHistory(IF p = SeqPhone THEN n ELSE m))[1]]
       /\ supplied = [seq |-> IsoHistory(n), at |-> 0]
  /\ sessions_lock = Free
  /\ csv_lock = Free
  /\ SEND_LOCK = Free
  /\ clock = 0
  /\ modem = {}
  /\ nmsgs = 0
  /\ nthreads = 0
  /\ workers = EmptyMap
  /\ mpc = "poll"
  /\ rpc = "sleep"
  /\ rnow = 0
  /\ csv = <<>>
  /\ ix = IxIdle

\* A message of the sender is unread or in the hands of a worker.
IsoInFlight(p) ==
  \/ \E r \in Unread : r.phone = p
  \/ \E w \in DOMAIN workers : Phone(w) = p

\* SeqPhone sends its next message when the worker of its last has ended;
\* OtherPhone sends at any time
IsoArrive ==
  \/ \E t \in Texts : ~IsoInFlight(SeqPhone) /\ Arrive(SeqPhone, t, MaxIsoMsgs, MaxInFlight, TRUE)
  \/ \E t \in FairTexts : Arrive(OtherPhone, t, MaxIsoMsgs, MaxInFlight, FALSE)

\* Two senders whose workers interleave in every way, all within the
\* session timeout of the start
IsolationNext ==
  \/ IsoArrive
  \/ MainAcquire
  \/ MainRead
  \/ MainReadFail
  \/ ReaperNow
  \/ ReaperSweep
  \/ \E w \in DOMAIN workers : HmCheck(w)
  \/ \E w \in DOMAIN workers : LockSessions(w)
  \/ \E w \in DOMAIN workers : HmGet(w)
  \/ \E w \in DOMAIN workers : HmLang(w)
  \/ \E w \in DOMAIN workers : HmGroup(w)
  \/ \E w \in DOMAIN workers : HmAnswer(w)
  \/ \E w \in DOMAIN workers : HmFinish(w)
  \/ \E w \in DOMAIN workers : CsvAcquire(w)
  \/ \E w \in DOMAIN workers : CsvWrite(w)
  \/ \E w \in DOMAIN workers : SendAcquire(w)
  \/ \E w \in DOMAIN workers, resp \in Responses : SendAttempt(w, resp)
  \/ \E w \in DOMAIN workers : DeleteAcquire(w)
  \/ \E w \in DOMAIN workers, resp \in {"ok", "raise"} : DeleteCommand(w, resp)

IsolationSpec == IsolationInit /\ [][IsolationNext]_vars

\* The step is one of worker w.
WorkerActs(w) ==
  /\ w \in DOMAIN workers
  /\ w \notin DOMAIN workers' \/ workers'[w] # workers[w]

\* The rows of the report file that hold the sender
RowsOf(file, p) == SelectSeq(file, LAMBDA row : row.phone = p)

\* The step leaves all that belongs to sender p as it is: its session
\* (presence, step, lang, group, answers, last_active), its rows of the
\* report file, its records in the modem and its workers.
Untouched(p) ==
  /\ p \in DOMAIN sessions <=> p \in DOMAIN sessions'
  /\ p \in DOMAIN sessions => sessions'[p] = sessions[p]
  /\ RowsOf(csv', p) = RowsOf(csv, p)
  /\ {r \in modem' : r.phone = p} = {r \in modem : r.phone = p}
  /\ \A v \in DOMAIN workers :
       Phone(v) = p => v \in DOMAIN workers' /\ workers'[v] = workers[v]

\* handle_message is over for every message SeqPhone has sent.
IsoQuiet ==
  /\ \A r \in Unread : r.phone # SeqPhone
  /\ \A w \in DOMAIN workers : Phone(w) = SeqPhone => Handled(w)

\* The session that the valid inputs h of a sender lead to when nobody else
\* writes, the report not yet complete: no session before the trigger, then
\* the language of the second input, the group of the third and the answers
\* from the fourth on.
IsoSessionOf(h) ==
  CASE Len(h) = 0 -> <<>>
    [] Len(h) = 1 -> << NewSession(0) >>
    [] Len(h) = 2 -> << [step |-> 0, lang |-> ChosenLanguage(h[2]), answers |-> <<>>,
                         group |-> NoneVal, last_active |-> 0] >>
    [] OTHER -> << [step |-> Len(h) - 2, lang |-> ChosenLanguage(h[2]),
                    answers |-> SubSeq(h, 4, Len(h)),
                    group |-> groupNames[IntOf(h[3])], last_active |-> 0] >>

\* The row that the ten valid inputs of a conversation lead to
IsoReportOf(p, h) ==
  Row(p, ChosenLanguage(h[2]), groupNames[IntOf(h[3])], SubSeq(h, 4, 10))

\* The session of SeqPhone and its rows of the report file are the ones its
\* own valid inputs lead to: before the tenth input the session of the
\* inputs so far and no row; from the tenth on its row first in the file,
\* and no session when the tenth input is the last message received.
IsoOwnOutcome ==
  IsoQuiet =>
    IF Len(supplied.seq) < 10
      THEN /\ RowsOf(csv, SeqPhone) = <<>>
           /\ (IF SeqPhone \in DOMAIN sessions THEN << sessions[SeqPhone] >> ELSE <<>>)
                = IsoSessionOf(supplied.seq)
      ELSE /\ RowsOf(csv, SeqPhone) # <<>>
           /\ RowsOf(csv, SeqPhone)[1] = IsoReportOf(SeqPhone, supplied.seq)
           /\ supplied.at = nmsgs => SeqPhone \notin DOMAIN sessions

\* C21: for two senders whose workers interleave in every way, a step of a
\* worker that handles a message of one sender never creates, modifies or
\* deletes the session of the other, nor touches the other's report rows,
\* modem records or workers; and the session and the report of a sender are
\* the ones its own inputs lead to, whatever the other sender has sent.
C21_SendersIsolated ==
  /\ [][\A w \in DOMAIN workers :
          WorkerActs(w) => \A p \in IsoPhones \ {Phone(w)} : Untouched(p)]_vars
  /\ []IsoOwnOutcome

\* both senders have completed a report, OtherPhone first, while the worker
\* of SeqPhone was running: the worker of OtherPhone is still sending when
\* SeqPhone's worker has finished handle_message
C21_Witness ==
  /\ Len(csv) = 2
  /\ csv[1].phone = OtherPhone
  /\ csv[2].phone = SeqPhone
  /\ \E w1 \in DOMAIN workers, w2 \in DOMAIN workers :
       /\ Phone(w1) = OtherPhone /\ workers[w1].pc = "send"
       /\ Phone(w2) = SeqPhone /\ workers[w2].pc = "in_delete"

====
